---- MODULE Spec2Model ----
(***************************************************************************)
(* Key Vault subsystem of vinetrimmer (vinetrimmer/objects/vaults.py):     *)
(* class Vault (construction, grants, has_permission) and class Vaults     *)
(* (registry order, get, table_exists, create_table, insert_key, commit,   *)
(* request).                                                               *)
(*                                                                         *)
(* Backends are the environment of the code.  A DB backend (sqlite file or *)
(* MySQL database) is a map from table names to the sequence of rows of    *)
(* the table; the position of a row is its AUTOINCREMENT id, rows are      *)
(* never deleted.  The MySQL server shows one schema, the vault's own.     *)
(* An HTTP or HTTPAPI key server is the sequence of rows it holds for the  *)
(* service.  vinetrimmer.utils.AtomicSQL is not among the sources; its     *)
(* safe_execute/commit are modelled from section 4.2 of the specification. *)
(***************************************************************************)
EXTENDS Integers, Sequences, FiniteSets, TLC

VARIABLES
    made,           \* Vault objects constructed so far: id -> [type, perms, ticket]
    lastInit,       \* outcome of the last Vault.__init__
    registry,       \* Vaults.vaults: sequence of vault ids, <<>> before Vaults.__init__
    phase,          \* "config" before Vaults.__init__, "run" after, "perm" for has_permission runs
    store,          \* backend of each vault id: table -> rows or NoTable
    dirty,          \* vault id -> the connection holds uncommitted writes
    api_session_id, \* Vaults.api_session_id
    pc,             \* thread -> position in the call it runs
    frame,          \* thread -> arguments and locals of the call it runs
    last,           \* thread -> the call it completed last, with its result
    prev,           \* thread -> the call it completed before that
    started,        \* number of calls started
    permq,          \* has_permission runs: the query and its answer
    plan,           \* the vaults still to construct, and how many go to Vaults.__init__
    budget,         \* number of calls the behaviour may start
    cursor,         \* vault id -> the cursor AtomicSQL keeps for the vault's connection
    mutex           \* vault id -> the thread inside the critical section of its ticket, or None

vars == <<made, lastInit, registry, phase, store, dirty, api_session_id,
          pc, frame, last, prev, started, permq, plan, budget, cursor, mutex>>

-----------------------------------------------------------------------------
(* Bounds *)
MaxCalls == 2       \* calls started by the two threads together
MaxSeqCalls == 3    \* calls started by the single thread
MaxGrants == 2      \* grant lines of one Vault in has_permission runs
MaxScan == 3        \* vaults of the registry in scan runs
MaxGateCalls == 3   \* statements started in connection gate runs

Threads == {"t1", "t2"}
None == "None"
Service == "svc"            \* Vaults.service
Tables == {Service, "other"}
Kids == {"k1", "k2"}
Keys == {"deadbeef", "cafef00d"}
Titles == {None, "Foo"}       \* None: no title (NULL)
SessionIds == {"s1", "s2"}
NoTable == "NoTable"

\* Vault.Types (LOCAL is a reserved word of TLA+)
T_LOCAL == "LOCAL"
T_REMOTE == "REMOTE"
T_HTTP == "HTTP"
T_HTTPAPI == "HTTPAPI"
Types == {T_LOCAL, T_REMOTE, T_HTTP, T_HTTPAPI}

FAILURE == "FAILURE"
SUCCESS == "SUCCESS"
ALREADY_EXISTS == "ALREADY_EXISTS"

-----------------------------------------------------------------------------
(* Permissions *)

\* str.upper on the operation names the model uses
upper(s) ==
    CASE s = "select" -> "SELECT"
      [] s = "Insert" -> "INSERT"
      [] s = "update" -> "UPDATE"
      [] s = "create" -> "CREATE"
      [] OTHER -> s

Grant(ops, db, tbl) == [ops |-> ops, loc |-> <<db, tbl>>]

WildcardGrants == <<Grant(<<"*">>, "*", "*")>>

\* Python truthiness of an optional string argument
Truthy(x) == x /= None /\ x /= ""

InSeq(x, s) == \E i \in 1..Len(s) : s[i] = x

\* has_permission without its database and table filters
has_permission_noscope(perms, operation, database, table) ==
    LET g1 == SelectSeq(perms, LAMBDA x : x.ops = <<"*">> \/ InSeq(upper(operation), x.ops))
    IN  g1 /= <<>>

\* has_permission that takes any grant as permission for the operation
has_permission_anygrant(perms, operation, database, table) == perms /= <<>>

\* Vault.has_permission, on the grants perms
has_permission(perms, operation, database, table) ==
    LET g1 == SelectSeq(perms, LAMBDA x : x.ops = <<"*">> \/ InSeq(upper(operation), x.ops))
        g2 == IF g1 /= <<>> /\ Truthy(database)
              THEN SelectSeq(g1, LAMBDA x : x.loc[1] \in {database, "*"})
              ELSE g1
        g3 == IF g2 /= <<>> /\ Truthy(table)
              THEN SelectSeq(g2, LAMBDA x : x.loc[2] \in {table, "*"})
              ELSE g2
    IN  g3 /= <<>>

\* One line of SHOW GRANTS after the text is cut at " TO " and " ON ":
\* the privilege names and the quoted location db.table
GrantLine(privs, db, tbl) == [privs |-> privs, db |-> db, tbl |-> tbl]

\* The MySQL accounts a REMOTE vault may connect as
Accounts ==
    [ root  |-> <<GrantLine(<<"ALL PRIVILEGES">>, "*", "*")>>,
      rw    |-> <<GrantLine(<<"USAGE">>, "*", "*"),
                  GrantLine(<<"SELECT", "INSERT", "UPDATE">>, "vault", "*")>>,
      ro    |-> <<GrantLine(<<"USAGE">>, "*", "*"),
                  GrantLine(<<"SELECT">>, "vault", "*")>>,
      tbl   |-> <<GrantLine(<<"USAGE">>, "*", "*"),
                  GrantLine(<<"INSERT", "SELECT">>, "vault", Service)>>,
      usage |-> <<GrantLine(<<"USAGE">>, "*", "*")>> ]

AccountNames == DOMAIN Accounts

\* perms.replace("ALL PRIVILEGES", "*").split(",") with each name stripped
ParsePrivs(privs) ==
    [i \in 1..Len(privs) |-> IF privs[i] = "ALL PRIVILEGES" THEN "*" ELSE privs[i]]

\* Vault.get_permissions
get_permissions(type, account) ==
    IF type \in {T_LOCAL, T_HTTP, T_HTTPAPI}
    THEN WildcardGrants
    ELSE [i \in 1..Len(Accounts[account]) |->
            Grant(ParsePrivs(Accounts[account][i].privs),
                  Accounts[account][i].db, Accounts[account][i].tbl)]

IsDB(type) == type \in {T_LOCAL, T_REMOTE}

-----------------------------------------------------------------------------
(* Results of calls *)

Returned(v) == [kind |-> "return", val |-> v]
\* Every raise of vaults.py is a ValueError; site tells the raise statements apart.
Raised(exc, site) == [kind |-> "raise", exc |-> exc, site |-> site]

NoSelect == Raised("ValueError", "no SELECT permission")
NoInsert == Raised("ValueError", "no INSERT permission")
NoTicket == Raised("ValueError", "no valid ticket")
IntegrityError == Raised("IntegrityError", "UNIQUE(kid, key_)")
NoSuchTable == Raised("OperationalError", "no such table")
ConnectionLost == Raised("OperationalError", "connection lost")
RequestFailed == Raised("RequestException", "request failed")
KeyErrorKeys == Raised("KeyError", "keys")

\* The error classes of section 7 of the specification, by raise site
ErrorClass(r) ==
    CASE r.kind /= "raise" -> None
      [] r = NoSelect \/ r = NoInsert -> "PermissionError"
      [] r = NoTicket -> "MissingTicketError"
      [] r.site \in {"API HTTP error", "API invalid response", "API error"} -> "RemoteAPIError"
      [] OTHER -> "BackendError"

\* The cursor of a connection before any statement: by is the caller whose
\* statement ran last, rows the ids of the rows of its result not fetched yet
NoCursor == [by |-> None, rows |-> {}]

-----------------------------------------------------------------------------
(* Construction *)

\* has_permission run at the end of Vault.__init__
vault_init_ok_unchecked(perms) == TRUE

vault_init_ok(perms) == has_permission(perms, "SELECT", None, None)

\* The backend a new vault connects to: found is what it holds for the service
\* (NoTable: a database without the service table)
Backend(type, found) ==
    [t \in Tables |-> IF t = Service THEN found ELSE NoTable]

\* Vault.__init__(type_, name, ...): the vault exists only if it can SELECT
VaultInit ==
    /\ phase = "config"
    /\ plan.vaults /= <<>>
    /\ LET p == Head(plan.vaults)
           perms == get_permissions(p.type, p.account)
       IN  IF vault_init_ok(perms)
           THEN /\ made' = Append(made, [type |-> p.type, perms |-> perms, ticket |-> FALSE])
                /\ store' = Append(store, Backend(p.type, p.found))
                /\ dirty' = Append(dirty, FALSE)
                /\ lastInit' = Returned(Len(made) + 1)
           ELSE /\ lastInit' = NoSelect
                /\ UNCHANGED <<made, store, dirty>>
    /\ plan' = [plan EXCEPT !.vaults = Tail(@)]
    /\ UNCHANGED <<registry, phase, api_session_id, pc, frame, last, prev, started, permq, budget, cursor, mutex>>

\* sorted(vaults, key=...) with the key v.type.value
SortedLocalFirst_bytype(ids, vs) ==
    SelectSeq(ids, LAMBDA i : vs[i].type = T_LOCAL)
        \o SelectSeq(ids, LAMBDA i : vs[i].type = T_REMOTE)
        \o SelectSeq(ids, LAMBDA i : vs[i].type = T_HTTP)
        \o SelectSeq(ids, LAMBDA i : vs[i].type = T_HTTPAPI)

\* sorted(vaults, key=lambda v: 0 if v.type is Vault.Types.LOCAL else 1)
SortedLocalFirst(ids, vs) ==
    SelectSeq(ids, LAMBDA i : vs[i].type = T_LOCAL)
        \o SelectSeq(ids, LAMBDA i : vs[i].type /= T_LOCAL)

\* CREATE TABLE IF NOT EXISTS with UNIQUE(kid, key_)
DbCreateTable(backend, table) ==
    IF backend[table] = NoTable THEN [backend EXCEPT ![table] = <<>>] ELSE backend

Min(a, b) == IF a < b THEN a ELSE b

\* Vaults.__init__(vaults, service), vaults being the first plan.n vaults made:
\* sort, then for each DB vault load a ticket and create_table(vault, service, commit=True)
VaultsInit ==
    /\ phase = "config"
    /\ plan.vaults = <<>>
    /\ LET n == Min(plan.n, Len(made))
       IN  /\ registry' = SortedLocalFirst([i \in 1..n |-> i], made)
           /\ made' = [i \in 1..Len(made) |->
                          IF i <= n /\ IsDB(made[i].type)
                          THEN [made[i] EXCEPT !.ticket = TRUE] ELSE made[i]]
           /\ store' = [i \in 1..Len(made) |->
                          IF i <= n /\ IsDB(made[i].type)
                             /\ has_permission(made[i].perms, "CREATE", None, None)
                          THEN DbCreateTable(store[i], Service) ELSE store[i]]
           /\ cursor' = [i \in 1..Len(made) |-> NoCursor]
           /\ mutex' = [i \in 1..Len(made) |-> None]
    /\ phase' = "run"
    /\ UNCHANGED <<lastInit, dirty, api_session_id, pc, frame, last, prev, started, permq,
                   plan, budget>>

-----------------------------------------------------------------------------
(* Calls.  A call is a sequence of steps; one step is one statement run    *)
(* through AtomicSQL.safe_execute (with the fetch of its result), one      *)
(* AtomicSQL.commit, or one HTTP exchange.  The statement and its fetch    *)
(* as two steps on the connection's cursor are in SpecGate below.          *)

\* The answer of a key server to an insert, before any answer came
NoResponse == [status_code |-> 0, inserted |-> FALSE]

\* fault: "backend" once a backend failed in the call (request, RPC or query),
\* "shape" once an answer lacked a field the code reads; had, existed, wrote,
\* visited, resp, own and cur record what the call found and did; sid is the
\* session id a request was sent with, rsid the one its answer carried
NoFrame ==
    [op |-> None, v |-> 0, table |-> None, kid |-> None, key |-> None, title |-> None,
     commit |-> FALSE, i |-> 0, row |-> 0, sid |-> None, rsid |-> None, fault |-> "none",
     ctitle |-> None,
     had |-> FALSE, wrote |-> FALSE, visited |-> <<>>,
     existed |-> FALSE, resp |-> NoResponse, site |-> None, own |-> {}, cur |-> None]

Idle(t) == pc[t] = "idle"

Begin(t, f, at) ==
    /\ phase = "run"
    /\ Idle(t)
    /\ started < budget
    /\ started' = started + 1
    /\ frame' = [frame EXCEPT ![t] = f]
    /\ pc' = [pc EXCEPT ![t] = at]

\* The call of thread t ends with result res; the call before the last is
\* kept in runs of a single caller
Finish(t, f, res) ==
    /\ last' = [last EXCEPT ![t] = [call |-> f, res |-> res]]
    /\ prev' = IF \E u \in Threads : pc[u] = "off"
               THEN [prev EXCEPT ![t] = last[t]]
               ELSE prev
    /\ pc' = [pc EXCEPT ![t] = "idle"]
    /\ frame' = [frame EXCEPT ![t] = NoFrame]

Goto(t, f, at) ==
    /\ pc' = [pc EXCEPT ![t] = at]
    /\ frame' = [frame EXCEPT ![t] = f]
    /\ UNCHANGED <<last, prev>>

\* Ids of the rows of a table matched by WHERE kid = ?
RowIds(rows, kid) == {i \in 1..Len(rows) : rows[i].kid = kid}

HasRow(backend, table, kid, key) ==
    /\ backend[table] /= NoTable
    /\ \E i \in 1..Len(backend[table]) :
          backend[table][i].kid = kid /\ backend[table][i].key = key

\* AtomicSQL.commit(ticket)
AdbCommit(v) == dirty' = [dirty EXCEPT ![v] = FALSE]

\* Vaults.table_exists(vault, table): a result, Returned(bool) or NoTicket
table_exists_miscount(vault, backend, table) ==
    IF vault.type = T_HTTP THEN Returned(TRUE)
    ELSE IF ~vault.ticket THEN NoTicket
    ELSE Returned(FALSE)

\* The count of matching tables is not compared with 1
table_exists_always(vault, backend, table) ==
    IF vault.type = T_HTTP THEN Returned(TRUE)
    ELSE IF ~vault.ticket THEN NoTicket
    ELSE Returned(TRUE)

\* The ticket of the vault is not looked at
table_exists_noticket(vault, backend, table) ==
    IF vault.type = T_HTTP THEN Returned(TRUE)
    ELSE Returned(backend[table] /= NoTable)

table_exists(vault, backend, table) ==
    IF vault.type = T_HTTP THEN Returned(TRUE)
    ELSE IF ~vault.ticket THEN NoTicket
    ELSE Returned(backend[table] /= NoTable)

-----------------------------------------------------------------------------
(* Vaults.get(kid, title) *)

\* What get returns: the tuple (key, vault), vault 0 standing for None, or a bare None
GetPair(key, v) == [key |-> key, vault |-> v, pair |-> TRUE]
GetBareNone == [key |-> None, vault |-> 0, pair |-> FALSE]

Row(kid, key, title) == [kid |-> kid, key |-> key, title |-> title]

\* first_or_none(x["key"] for x in keys if x["kid"] == kid)
FirstKeyOf(keys, kid) ==
    LET m == SelectSeq(keys, LAMBDA x : x.kid = kid)
    IN  IF m = <<>> THEN None ELSE m[1].key

\* What an HTTP key server may answer to a lookup: the request fails, the body
\* has no "keys" field, or it lists the keys the server holds for the kid.
HttpGetResponses(rows, kid) ==
    { [kind |-> "fail"], [kind |-> "nokeys"],
      [kind |-> "keys", keys |-> SelectSeq(rows, LAMBDA x : x.kid = kid)] }

\* What Vaults.request may see: an HTTP error, a body that is not JSON, an
\* envelope with status_code /= 200, or status_code 200 with a message that
\* may carry a session_id.
ApiFailures == {"API HTTP error", "API invalid response", "API error"}

ApiOutcomes == ApiFailures \cup {"ok"}

\* Only a JSON envelope has a message that can carry a session_id; the
\* session ids the key server of a configuration hands out are plan.sessions
ApiSessionIds(out) ==
    IF out \in {"API HTTP error", "API invalid response"} THEN {None}
    ELSE plan.sessions \cup {None}

\* self.api_session_id = res["message"].get("session_id"), whatever it is
request_session_clears(out, sid, cur) ==
    IF out = "ok" THEN sid ELSE cur

\* The session id of the first answer is kept
request_session_keepfirst(out, sid, cur) ==
    IF out = "ok" /\ sid /= None /\ cur = None THEN sid ELSE cur

\* The session id is read before the status of the answer is looked at
request_session_early(out, sid, cur) ==
    IF sid /= None THEN sid ELSE cur

\* Vaults.request after its three raises:
\* if session_id := res["message"].get("session_id"): self.api_session_id = session_id
request_session(out, sid, cur) ==
    IF out = "ok" /\ sid /= None THEN sid ELSE cur

GetCall(t, kid, title) ==
    /\ Begin(t, [NoFrame EXCEPT !.op = "get", !.kid = kid, !.title = title, !.i = 1],
             "get_vault")
    /\ UNCHANGED <<made, lastInit, registry, phase, store, dirty, api_session_id, last, prev, permq, plan, budget, cursor, mutex>>

\* for vault in self.vaults: ... return None, None
GetDone(t) ==
    /\ pc[t] = "get_vault"
    /\ frame[t].i > Len(registry)
    /\ Finish(t, frame[t], Returned(GetPair(None, 0)))
    /\ UNCHANGED <<made, lastInit, registry, phase, store, dirty, api_session_id, started, permq, plan, budget, cursor, mutex>>

\* vault.type is Vault.Types.HTTP
GetHttp(t) ==
    /\ pc[t] = "get_vault"
    /\ frame[t].i <= Len(registry)
    /\ LET f == frame[t]
           v == registry[f.i]
           g == [f EXCEPT !.visited = Append(@, v)]
       IN  /\ made[v].type = T_HTTP
           /\ \E resp \in HttpGetResponses(store[v][Service], f.kid) :
                CASE resp.kind = "fail" ->
                        Finish(t, [g EXCEPT !.fault = "backend"], RequestFailed)
                  [] resp.kind = "nokeys" ->
                        Finish(t, [g EXCEPT !.fault = "shape"], KeyErrorKeys)
                  [] OTHER ->
                        IF resp.keys /= <<>>
                        THEN Finish(t, g, Returned(GetPair(resp.keys[1].key, v)))
                        ELSE Goto(t, [g EXCEPT !.i = @ + 1], "get_vault")
    /\ UNCHANGED <<made, lastInit, registry, phase, store, dirty, api_session_id, started, permq, plan, budget, cursor, mutex>>

\* vault.type is Vault.Types.HTTPAPI: self.request("GetKey", ...) posts the
\* request with the session id read now
GetApiSend(t) ==
    /\ pc[t] = "get_vault"
    /\ frame[t].i <= Len(registry)
    /\ LET f == frame[t]
           v == registry[f.i]
       IN  /\ made[v].type = T_HTTPAPI
           /\ Goto(t, [f EXCEPT !.sid = api_session_id, !.visited = Append(@, v)], "get_api")
    /\ UNCHANGED <<made, lastInit, registry, phase, store, dirty, api_session_id, started, permq, plan, budget, cursor, mutex>>

\* Vaults.get on the answer of the HTTPAPI vault: whatever request() raises is
\* caught and get returns None; otherwise get returns (first match or None, vault)
GetApiAnswer_propagates(f, v, out, keys) ==
    IF out \in ApiFailures
    THEN Raised("ValueError", out)
    ELSE Returned(GetPair(FirstKeyOf(keys, f.kid), v))

GetApiAnswer(f, v, out, keys) ==
    IF out \in ApiFailures
    THEN Returned(GetBareNone)
    ELSE Returned(GetPair(FirstKeyOf(keys, f.kid), v))

GetApiRecv(t) ==
    /\ pc[t] = "get_api"
    /\ LET f == frame[t]
           v == registry[f.i]
       IN  \E out \in ApiOutcomes : \E sid \in ApiSessionIds(out) :
              /\ api_session_id' = request_session(out, sid, api_session_id)
              /\ Finish(t, [f EXCEPT !.fault = IF out \in ApiFailures THEN "backend" ELSE "none",
                                     !.rsid = sid],
                        GetApiAnswer(f, v, out, store[v][Service]))
    /\ UNCHANGED <<made, lastInit, registry, phase, store, dirty, started, permq, plan, budget, cursor, mutex>>

\* DB vault: if not self.table_exists(vault, self.service): continue;
\* if not vault.ticket: raise
GetTableExists(t) ==
    /\ pc[t] = "get_vault"
    /\ frame[t].i <= Len(registry)
    /\ LET f == frame[t]
           v == registry[f.i]
           r == table_exists(made[v], store[v], Service)
       IN  /\ IsDB(made[v].type)
           /\ IF r.kind = "raise" THEN Finish(t, f, r)
              ELSE IF ~r.val THEN Goto(t, [f EXCEPT !.i = @ + 1], "get_vault")
              ELSE IF ~made[v].ticket THEN Finish(t, f, NoTicket)
              ELSE Goto(t, f, "get_select")
    /\ UNCHANGED <<made, lastInit, registry, phase, store, dirty, api_session_id, started, permq, plan, budget, cursor, mutex>>

\* SELECT id, key_, title FROM service WHERE kid = ? ... fetchone(); the row
\* order of a SELECT without ORDER BY is the backend's choice, and a SELECT
\* from a table the backend does not have is an error of the backend
GetSelect(t) ==
    /\ pc[t] = "get_select"
    /\ LET f == frame[t]
           v == registry[f.i]
           rows == store[v][Service]
           hits == RowIds(rows, f.kid)
           g == [f EXCEPT !.visited = Append(@, v)]
       IN  \/ Finish(t, [g EXCEPT !.fault = "backend"], ConnectionLost)
           \/ /\ rows = NoTable
              /\ Finish(t, [g EXCEPT !.fault = "backend"], NoSuchTable)
           \/ /\ rows /= NoTable
              /\ hits = {}
              /\ Goto(t, [g EXCEPT !.i = @ + 1], "get_vault")
           \/ \E c \in (IF rows = NoTable THEN {} ELSE hits) :
                IF rows[c].title = None
                   /\ has_permission(made[v].perms, "UPDATE", None, Service)
                THEN Goto(t, [g EXCEPT !.row = c, !.key = rows[c].key,
                                       !.ctitle = rows[c].title], "get_update")
                ELSE Finish(t, [g EXCEPT !.row = c, !.key = rows[c].key,
                                         !.ctitle = rows[c].title],
                            Returned(GetPair(rows[c].key, v)))
    /\ UNCHANGED <<made, lastInit, registry, phase, store, dirty, api_session_id, started, permq, plan, budget, cursor, mutex>>

\* UPDATE service SET title = ? WHERE id = ?
DbSetTitle_swapped(backend, table, id, title) == backend

DbSetTitle(backend, table, id, title) ==
    [backend EXCEPT ![table][id].title = title]

GetUpdate(t) ==
    /\ pc[t] = "get_update"
    /\ LET f == frame[t]
           v == registry[f.i]
       IN  /\ store' = [store EXCEPT ![v] = DbSetTitle(@, Service, f.row, f.title)]
           /\ dirty' = [dirty EXCEPT ![v] = TRUE]
           /\ Goto(t, [f EXCEPT !.wrote = TRUE], "get_commit")
    /\ UNCHANGED <<made, lastInit, registry, phase, api_session_id, started, permq, plan, budget, cursor, mutex>>

\* self.commit(vault); return c[1], vault
GetCommit(t) ==
    /\ pc[t] = "get_commit"
    /\ LET f == frame[t]
           v == registry[f.i]
       IN  /\ AdbCommit(v)
           /\ Finish(t, f, Returned(GetPair(f.key, v)))
    /\ UNCHANGED <<made, lastInit, registry, phase, store, api_session_id, started, permq, plan, budget, cursor, mutex>>

-----------------------------------------------------------------------------
(* Vaults.insert_key(vault, table, kid, key, title, commit) *)

InsertCall(t, v, table, kid, key, title, commit) ==
    /\ v \in 1..Len(made)
    /\ Begin(t, [NoFrame EXCEPT !.op = "insert_key", !.v = v, !.table = table, !.kid = kid,
                                !.key = key, !.title = title, !.commit = commit,
                                !.had = HasRow(store[v], table, kid, key),
                                !.existed = (store[v][table] /= NoTable)],
             "ins_start")
    /\ UNCHANGED <<made, lastInit, registry, phase, store, dirty, api_session_id, last, prev, permq, plan, budget, cursor, mutex>>

\* The key server's rows after an insert request for (kid, key)
ServerInsert(rows, kid, key, title) ==
    IF \E i \in 1..Len(rows) : rows[i].kid = kid /\ rows[i].key = key
    THEN rows
    ELSE Append(rows, Row(kid, key, title))

\* The status codes a key server answers with
HttpStatusCodes == {200, 500}

\* The result mapping of the HTTPAPI branch used for HTTP answers
HttpInsertResult_noexists(status_code, inserted) ==
    IF status_code = 200 /\ inserted THEN SUCCESS ELSE FAILURE

\* keys["status_code"] == 200 and keys["inserted"] / == 200 / else
HttpInsertResult(status_code, inserted) ==
    IF status_code = 200 /\ inserted THEN SUCCESS
    ELSE IF status_code = 200 THEN ALREADY_EXISTS
    ELSE FAILURE

\* vault.type == Vault.Types.HTTP
InsHttp(t) ==
    /\ pc[t] = "ins_start"
    /\ LET f == frame[t]
           v == f.v
           rows == store[v][Service]
           after == ServerInsert(rows, f.kid, f.key, f.title)
       IN  /\ made[v].type = T_HTTP
           /\ \/ /\ Finish(t, [f EXCEPT !.fault = "backend"], RequestFailed)
                 /\ UNCHANGED store
              \/ \E code \in HttpStatusCodes \ {200}, ins \in BOOLEAN :
                    /\ Finish(t, [f EXCEPT !.resp = [status_code |-> code, inserted |-> ins]],
                              Returned(HttpInsertResult(code, ins)))
                    /\ UNCHANGED store
              \/ /\ Finish(t, [f EXCEPT !.resp = [status_code |-> 200,
                                                  inserted |-> after /= rows]],
                            Returned(HttpInsertResult(200, after /= rows)))
                 /\ store' = [store EXCEPT ![v][Service] = after]
    /\ UNCHANGED <<made, lastInit, registry, phase, dirty, api_session_id, started, permq, plan, budget, cursor, mutex>>

\* vault.type is Vault.Types.HTTPAPI: self.request("InsertKey", ...)
InsApiSend(t) ==
    /\ pc[t] = "ins_start"
    /\ made[frame[t].v].type = T_HTTPAPI
    /\ Goto(t, [frame[t] EXCEPT !.sid = api_session_id], "ins_api")
    /\ UNCHANGED <<made, lastInit, registry, phase, store, dirty, api_session_id, started, permq, plan, budget, cursor, mutex>>

\* The result mapping of the HTTP branch used for HTTPAPI answers
InsApiAnswer_exists(out, inserted) ==
    IF out \in ApiFailures THEN Raised("ValueError", out)
    ELSE IF inserted THEN Returned(SUCCESS)
    ELSE Returned(ALREADY_EXISTS)

\* request() raises, or insert_key maps message["inserted"]
InsApiAnswer(out, inserted) ==
    IF out \in ApiFailures THEN Raised("ValueError", out)
    ELSE IF inserted THEN Returned(SUCCESS)
    ELSE Returned(FAILURE)

InsApiRecv(t) ==
    /\ pc[t] = "ins_api"
    /\ LET f == frame[t]
           v == f.v
           rows == store[v][Service]
           after == ServerInsert(rows, f.kid, f.key, f.title)
       IN  \E out \in ApiOutcomes : \E sid \in ApiSessionIds(out) :
              /\ api_session_id' = request_session(out, sid, api_session_id)
              /\ store' = IF out = "ok" THEN [store EXCEPT ![v][Service] = after] ELSE store
              /\ Finish(t, [f EXCEPT !.fault = IF out \in ApiFailures THEN "backend" ELSE "none",
                                     !.rsid = sid,
                                     !.resp = IF out = "ok"
                                              THEN [status_code |-> 200,
                                                    inserted |-> after /= rows]
                                              ELSE NoResponse],
                        InsApiAnswer(out, after /= rows))
    /\ UNCHANGED <<made, lastInit, registry, phase, dirty, started, permq, plan, budget, cursor, mutex>>

\* if not self.table_exists(vault, table): return FAILURE; ticket; INSERT permission
InsTableExists(t) ==
    /\ pc[t] = "ins_start"
    /\ LET f == frame[t]
           v == f.v
           r == table_exists(made[v], store[v], f.table)
       IN  /\ IsDB(made[v].type)
           /\ IF r.kind = "raise" THEN Finish(t, f, r)
              ELSE IF ~r.val THEN Finish(t, f, Returned(FAILURE))
              ELSE IF ~made[v].ticket THEN Finish(t, f, NoTicket)
              ELSE IF ~has_permission(made[v].perms, "INSERT", None, f.table)
                   THEN Finish(t, f, NoInsert)
              ELSE Goto(t, f, "ins_check")
    /\ UNCHANGED <<made, lastInit, registry, phase, store, dirty, api_session_id, started, permq, plan, budget, cursor, mutex>>

\* The table the duplicate check of insert_key reads: self.service
dup_table(table) == Service

\* SELECT id FROM <self.service> WHERE kid = ? AND key_ = ? ... fetchone()
dup_found_swapped(backend, table, kid, key) == HasRow(backend, dup_table(table), key, kid)

dup_found(backend, table, kid, key) == HasRow(backend, dup_table(table), kid, key)

InsCheck(t) ==
    /\ pc[t] = "ins_check"
    /\ LET f == frame[t]
           v == f.v
       IN  IF store[v][dup_table(f.table)] = NoTable THEN Finish(t, f, NoSuchTable)
           ELSE IF dup_found(store[v], f.table, f.kid, f.key)
                THEN Finish(t, f, Returned(ALREADY_EXISTS))
           ELSE Goto(t, f, "ins_insert")
    /\ UNCHANGED <<made, lastInit, registry, phase, store, dirty, api_session_id, started, permq, plan, budget, cursor, mutex>>

\* INSERT INTO table (kid, key_, title): the UNIQUE(kid, key_) constraint of the
\* table refuses a second row for the pair
DbInsertAllowed_nounique(backend, table, kid, key) == TRUE

DbInsertAllowed(backend, table, kid, key) == ~HasRow(backend, table, kid, key)

\* The INSERT run on every connection that has the table
DbInsertRow_everywhere(st, v, table, row) ==
    [w \in 1..Len(st) |->
        IF w = v \/ (IsDB(made[w].type) /\ st[w][table] /= NoTable)
        THEN [st[w] EXCEPT ![table] = Append(@, row)]
        ELSE st[w]]

\* The backends after the INSERT ran on the connection of vault v (vault.ticket)
DbInsertRow(st, v, table, row) ==
    [st EXCEPT ![v][table] = Append(@, row)]

InsInsert(t) ==
    /\ pc[t] = "ins_insert"
    /\ LET f == frame[t]
           v == f.v
       IN  IF ~DbInsertAllowed(store[v], f.table, f.kid, f.key)
           THEN /\ Finish(t, f, IntegrityError)
                /\ UNCHANGED <<store, dirty>>
           ELSE /\ store' = DbInsertRow(store, v, f.table, Row(f.kid, f.key, f.title))
                /\ dirty' = [dirty EXCEPT ![v] = TRUE]
                /\ IF f.commit THEN Goto(t, [f EXCEPT !.wrote = TRUE], "ins_commit")
                   ELSE Finish(t, [f EXCEPT !.wrote = TRUE], Returned(SUCCESS))
    /\ UNCHANGED <<made, lastInit, registry, phase, api_session_id, started, permq, plan, budget, cursor, mutex>>

\* if commit: self.commit(vault); return SUCCESS
InsCommit(t) ==
    /\ pc[t] = "ins_commit"
    /\ AdbCommit(frame[t].v)
    /\ Finish(t, frame[t], Returned(SUCCESS))
    /\ UNCHANGED <<made, lastInit, registry, phase, store, api_session_id, started, permq, plan, budget, cursor, mutex>>

-----------------------------------------------------------------------------
(* Vaults.create_table(vault, table, commit) *)

CreateTableCall(t, v, table, commit) ==
    /\ v \in 1..Len(made)
    /\ Begin(t, [NoFrame EXCEPT !.op = "create_table", !.v = v, !.table = table,
                                !.commit = commit,
                                !.had = (store[v][table] /= NoTable)],
             "ct_start")
    /\ UNCHANGED <<made, lastInit, registry, phase, store, dirty, api_session_id, last, prev, permq, plan, budget, cursor, mutex>>

\* if self.table_exists(vault, table): return; ticket; if vault.has_permission("CREATE")
CtTableExists(t) ==
    /\ pc[t] = "ct_start"
    /\ LET f == frame[t]
           v == f.v
           r == table_exists(made[v], store[v], f.table)
       IN  IF r.kind = "raise" THEN Finish(t, f, r)
           ELSE IF r.val THEN Finish(t, f, Returned(None))
           ELSE IF ~made[v].ticket THEN Finish(t, f, NoTicket)
           ELSE IF has_permission(made[v].perms, "CREATE", None, None)
                THEN Goto(t, f, "ct_create")
           ELSE Finish(t, f, Returned(None))
    /\ UNCHANGED <<made, lastInit, registry, phase, store, dirty, api_session_id, started, permq, plan, budget, cursor, mutex>>

\* CREATE TABLE IF NOT EXISTS table (...); sqlite runs DDL in the open
\* transaction, MySQL commits it at once
CtCreate(t) ==
    /\ pc[t] = "ct_create"
    /\ LET f == frame[t]
           v == f.v
           g == [f EXCEPT !.wrote = TRUE]
       IN  /\ store' = [store EXCEPT ![v] = DbCreateTable(@, f.table)]
           /\ dirty' = [dirty EXCEPT ![v] = (made[v].type = T_LOCAL)]
           /\ IF f.commit THEN Goto(t, g, "ct_commit")
              ELSE Finish(t, g, Returned(None))
    /\ UNCHANGED <<made, lastInit, registry, phase, api_session_id, started, permq, plan, budget, cursor, mutex>>

CtCommit(t) ==
    /\ pc[t] = "ct_commit"
    /\ AdbCommit(frame[t].v)
    /\ Finish(t, frame[t], Returned(None))
    /\ UNCHANGED <<made, lastInit, registry, phase, store, api_session_id, started, permq, plan, budget, cursor, mutex>>

-----------------------------------------------------------------------------
(* Vaults.commit(vault) and Vaults.table_exists(vault, table) *)

CommitCall(t, v) ==
    /\ v \in 1..Len(made)
    /\ Begin(t, [NoFrame EXCEPT !.op = "commit", !.v = v], "commit")
    /\ UNCHANGED <<made, lastInit, registry, phase, store, dirty, api_session_id, last, prev, permq, plan, budget, cursor, mutex>>

\* AtomicSQL.commit refuses a ticket it did not hand out
Commit(t) ==
    /\ pc[t] = "commit"
    /\ LET f == frame[t]
           v == f.v
       IN  IF made[v].type \in {T_HTTP, T_HTTPAPI}
           THEN /\ Finish(t, f, Returned(None))
                /\ UNCHANGED dirty
           ELSE IF ~made[v].ticket
           THEN /\ Finish(t, f, NoTicket)
                /\ UNCHANGED dirty
           ELSE /\ AdbCommit(v)
                /\ Finish(t, f, Returned(None))
    /\ UNCHANGED <<made, lastInit, registry, phase, store, api_session_id, started, permq, plan, budget, cursor, mutex>>

TableExistsCall(t, v, table) ==
    /\ v \in 1..Len(made)
    /\ Begin(t, [NoFrame EXCEPT !.op = "table_exists", !.v = v, !.table = table], "texists")
    /\ UNCHANGED <<made, lastInit, registry, phase, store, dirty, api_session_id, last, prev, permq, plan, budget, cursor, mutex>>

TableExists(t) ==
    /\ pc[t] = "texists"
    /\ Finish(t, frame[t], table_exists(made[frame[t].v], store[frame[t].v], frame[t].table))
    /\ UNCHANGED <<made, lastInit, registry, phase, store, dirty, api_session_id, started, permq, plan, budget, cursor, mutex>>

-----------------------------------------------------------------------------
(* Specifications *)

NoResult == [kind |-> "none"]
NoCall == [call |-> NoFrame, res |-> NoResult]

V(type, account, found) == [type |-> type, account |-> account, found |-> found]

R1 == Row("k1", "deadbeef", None)
R2 == Row("k1", "cafef00d", "Foo")

\* The configurations the calls run against
Plans ==
    { [vaults |-> <<V(T_LOCAL, "root", NoTable)>>, n |-> 1],
      [vaults |-> <<V(T_REMOTE, "root", NoTable)>>, n |-> 1],
      [vaults |-> <<V(T_REMOTE, "rw", NoTable)>>, n |-> 1],
      [vaults |-> <<V(T_REMOTE, "rw", <<R1>>)>>, n |-> 1],
      [vaults |-> <<V(T_REMOTE, "ro", <<R1>>)>>, n |-> 1],
      [vaults |-> <<V(T_REMOTE, "tbl", <<>>)>>, n |-> 1],
      [vaults |-> <<V(T_REMOTE, "usage", <<>>)>>, n |-> 1],
      [vaults |-> <<V(T_HTTP, "root", <<>>)>>, n |-> 1],
      [vaults |-> <<V(T_HTTPAPI, "root", <<>>)>>, n |-> 1, sessions |-> {"s1"}],
      [vaults |-> <<V(T_HTTPAPI, "root", <<>>), V(T_REMOTE, "rw", <<R1>>)>>, n |-> 2,
       sessions |-> {}],
      [vaults |-> <<V(T_REMOTE, "root", <<R2>>), V(T_LOCAL, "root", <<>>)>>, n |-> 1] }

GetArgs == {<<"k1", None>>, <<"k1", "Foo">>, <<"k2", None>>}

InsertArgs ==
    { <<Service, "k1", "deadbeef", None, FALSE>>,
      <<Service, "k1", "cafef00d", "Foo", TRUE>>,
      <<Service, "k2", "deadbeef", None, TRUE>>,
      <<"other", "k1", "deadbeef", None, FALSE>> }

CreateArgs == {<<Service, FALSE>>, <<"other", TRUE>>}

InitWith(threads, plans, calls) ==
    /\ made = <<>>
    /\ lastInit = NoResult
    /\ registry = <<>>
    /\ phase = "config"
    /\ store = <<>>
    /\ dirty = <<>>
    /\ api_session_id = None
    /\ pc = [t \in Threads |-> IF t \in threads THEN "idle" ELSE "off"]
    /\ frame = [t \in Threads |-> NoFrame]
    /\ last = [t \in Threads |-> NoCall]
    /\ prev = [t \in Threads |-> NoCall]
    /\ started = 0
    /\ permq = NoResult
    /\ plan \in plans
    /\ budget = calls
    /\ cursor = <<>>
    /\ mutex = <<>>

Init == InitWith(Threads, Plans, MaxCalls)

InitSeq == InitWith({"t1"}, Plans, MaxSeqCalls)

Construct == VaultInit \/ VaultsInit

VaultIds == 1..Len(made)

Calls(t) ==
    \/ \E a \in GetArgs : GetCall(t, a[1], a[2])
    \/ \E v \in VaultIds, a \in InsertArgs : InsertCall(t, v, a[1], a[2], a[3], a[4], a[5])
    \/ \E v \in VaultIds, a \in CreateArgs : CreateTableCall(t, v, a[1], a[2])
    \/ \E v \in VaultIds : CommitCall(t, v)
    \/ \E v \in VaultIds, table \in Tables : TableExistsCall(t, v, table)

GetSteps(t) ==
    \/ GetDone(t) \/ GetHttp(t) \/ GetApiSend(t) \/ GetApiRecv(t)
    \/ GetTableExists(t) \/ GetSelect(t) \/ GetUpdate(t) \/ GetCommit(t)

Steps(t) ==
    \/ GetSteps(t)
    \/ InsHttp(t) \/ InsApiSend(t) \/ InsApiRecv(t)
    \/ InsTableExists(t) \/ InsCheck(t) \/ InsInsert(t) \/ InsCommit(t)
    \/ CtTableExists(t) \/ CtCreate(t) \/ CtCommit(t)
    \/ Commit(t) \/ TableExists(t)

Next ==
    \/ Construct
    \/ \E t \in Threads : Calls(t) \/ Steps(t)

\* Threads t1 and t2 call into one registry
Spec == Init /\ [][Next]_vars

\* One thread calls into the registry
SpecSeq == InitSeq /\ [][Next]_vars

-----------------------------------------------------------------------------
(* Calls to one HTTPAPI vault whose key server hands out two session ids *)

MaxApiCalls == 2

MaxApiSeqCalls == 3

ApiPlans ==
    { [vaults |-> <<V(T_HTTPAPI, "root", <<>>)>>, n |-> 1, sessions |-> SessionIds],
      [vaults |-> <<V(T_HTTPAPI, "root", <<R1>>)>>, n |-> 1, sessions |-> SessionIds] }

InitApi == InitWith(Threads, ApiPlans, MaxApiCalls)

InitApiSeq == InitWith({"t1"}, ApiPlans, MaxApiSeqCalls)

NextApi ==
    \/ Construct
    \/ \E t \in Threads :
          \/ \E a \in GetArgs : GetCall(t, a[1], a[2])
          \/ \E v \in VaultIds, a \in InsertArgs :
                InsertCall(t, v, a[1], a[2], a[3], a[4], a[5])
          \/ GetApiSend(t) \/ GetApiRecv(t)
          \/ InsApiSend(t) \/ InsApiRecv(t)

\* Threads t1 and t2 call get and insert_key
SpecApi == InitApi /\ [][NextApi]_vars

\* One thread calls get and insert_key
SpecApiSeq == InitApiSeq /\ [][NextApi]_vars

-----------------------------------------------------------------------------
(* One get over every registry of up to MaxScan vaults *)

RECURSIVE SeqsUpTo(_, _)
SeqsUpTo(S, n) ==
    IF n = 0 THEN {<<>>}
    ELSE LET shorter == SeqsUpTo(S, n - 1)
         IN  shorter \cup {Append(q, x) : q \in {r \in shorter : Len(r) = n - 1}, x \in S}

ScanVaults ==
    {V(type, "root", found) : type \in Types, found \in {<<>>, <<R1>>, <<R2>>}}
        \cup {V(T_REMOTE, "rw", NoTable)}

ScanPlans ==
    {[vaults |-> q, n |-> Len(q), sessions |-> {"s1"}] :
        q \in SeqsUpTo(ScanVaults, MaxScan) \ {<<>>}}

InitScan == InitWith({"t1"}, ScanPlans, 1)

NextScan ==
    \/ Construct
    \/ \E t \in Threads :
          \/ \E a \in GetArgs : GetCall(t, a[1], a[2])
          \/ GetSteps(t)

SpecScan == InitScan /\ [][NextScan]_vars

-----------------------------------------------------------------------------
(* has_permission on its own *)

OpLists == {<<"*">>, <<"INSERT", "SELECT">>, <<"USAGE">>}

GrantSet == {Grant(ops, db, tbl) : ops \in OpLists, db \in {"*", "vault"}, tbl \in {"*", "mytable"}}

InitHas ==
    /\ made = <<>>
    /\ lastInit = NoResult
    /\ registry = <<>>
    /\ phase = "perm"
    /\ store = <<>>
    /\ dirty = <<>>
    /\ api_session_id = None
    /\ pc = [t \in Threads |-> "off"]
    /\ frame = [t \in Threads |-> NoFrame]
    /\ last = [t \in Threads |-> NoCall]
    /\ prev = [t \in Threads |-> NoCall]
    /\ started = 0
    /\ plan = [vaults |-> <<>>, n |-> 0]
    /\ budget = 0
    /\ cursor = <<>>
    /\ mutex = <<>>
    /\ permq \in [perms : SeqsUpTo(GrantSet, MaxGrants),
                  operation : {"SELECT", "select", "CREATE"},
                  database : {None, "vault", "otherdb"},
                  table : {None, "mytable", "other"},
                  done : {FALSE}, res : {FALSE}]

HasPermissionRun ==
    /\ phase = "perm"
    /\ ~permq.done
    /\ permq' = [permq EXCEPT !.done = TRUE,
                              !.res = has_permission(permq.perms, permq.operation,
                                                     permq.database, permq.table)]
    /\ UNCHANGED <<made, lastInit, registry, phase, store, dirty, api_session_id,
                   pc, frame, last, prev, started, plan, budget, cursor, mutex>>

NextHas == HasPermissionRun

SpecHas == InitHas /\ [][NextHas]_vars

-----------------------------------------------------------------------------
(* The statements of Vaults.get and Vaults.insert_key on one connection.   *)
(* self.adb.safe_execute(vault.ticket, lambda db, cursor:                  *)
(* cursor.execute(...)) runs the statement on the cursor AtomicSQL keeps   *)
(* for the ticket, under the ticket's mutex, and returns; .fetchone() is   *)
(* then called on what safe_execute returned.                              *)

\* The call sites: the SELECT of get, the duplicate check of insert_key, and
\* the commit of Vaults.commit
StmtSites == {"get_select", "ins_check"}

GateSites == StmtSites \cup {"commit"}

\* Ids of the rows the statement of a call site selects
StmtRows(backend, site, kid, key) ==
    IF backend[Service] = NoTable THEN {}
    ELSE IF site = "get_select" THEN RowIds(backend[Service], kid)
    ELSE {i \in RowIds(backend[Service], kid) : backend[Service][i].key = key}

\* safe_execute(ticket, lambda db, cursor: cursor.execute(...)) or
\* commit(ticket) is called with the ticket of vault v
StmtCall(t, v, site, kid, key) ==
    /\ v \in 1..Len(made)
    /\ IsDB(made[v].type)
    /\ made[v].ticket
    /\ Begin(t, [NoFrame EXCEPT !.op = IF site = "commit" THEN "adb_commit" ELSE "safe_execute",
                                !.v = v, !.site = site, !.kid = kid, !.key = key],
             "acquire")
    /\ UNCHANGED <<made, lastInit, registry, phase, store, dirty, api_session_id, last, prev,
                   permq, plan, budget, cursor, mutex>>

\* Every vault is given the ticket of the first connection loaded
TicketOf_shared(v) == 1

\* vault.ticket = self.adb.load(vault.con): each vault of the registry loads
\* its own connection and keeps the ticket it gets for it
TicketOf(v) == v

\* The mutex of the ticket of vault v is not held
MutexFree(v) == mutex[TicketOf(v)] = None

\* The caller acquires the mutex of the ticket, waiting while another holds it
MutexAcquire(t) ==
    /\ pc[t] = "acquire"
    /\ MutexFree(frame[t].v)
    /\ mutex' = [mutex EXCEPT ![TicketOf(frame[t].v)] = t]
    /\ Goto(t, frame[t], "inside")
    /\ UNCHANGED <<made, lastInit, registry, phase, store, dirty, api_session_id, started,
                   permq, plan, budget, cursor>>

\* Inside the critical section the function passed in runs (cursor.execute:
\* the cursor then holds the result) or the connection commits; the mutex is
\* released and the call returns (0: None)
StmtExecute(t) ==
    /\ pc[t] = "inside"
    /\ LET f == frame[t]
           v == f.v
           rows == StmtRows(store[v], f.site, f.kid, f.key)
       IN  /\ mutex' = [mutex EXCEPT ![TicketOf(v)] = None]
           /\ IF f.site = "commit"
              THEN /\ AdbCommit(v)
                   /\ Finish(t, f, Returned(0))
                   /\ UNCHANGED cursor
              ELSE /\ cursor' = [cursor EXCEPT ![v] = [by |-> t, rows |-> rows]]
                   /\ Goto(t, [f EXCEPT !.own = rows], "fetch")
                   /\ UNCHANGED dirty
    /\ UNCHANGED <<made, lastInit, registry, phase, store, api_session_id, started,
                   permq, plan, budget>>

\* .fetchone() on the cursor: a row of the result the cursor holds now (0: None)
StmtFetch(t) ==
    /\ pc[t] = "fetch"
    /\ LET f == frame[t]
           c == cursor[f.v]
           g == [f EXCEPT !.cur = c.by]
       IN  IF c.rows = {}
           THEN /\ Finish(t, g, Returned(0))
                /\ UNCHANGED cursor
           ELSE \E r \in c.rows :
                   /\ Finish(t, g, Returned(r))
                   /\ cursor' = [cursor EXCEPT ![f.v].rows = @ \ {r}]
    /\ UNCHANGED <<made, lastInit, registry, phase, store, dirty, api_session_id, started,
                   permq, plan, budget, mutex>>

GatePlans ==
    { [vaults |-> <<V(T_LOCAL, "root", <<R1>>)>>, n |-> 1],
      [vaults |-> <<V(T_REMOTE, "rw", <<R1, R2>>)>>, n |-> 1],
      [vaults |-> <<V(T_REMOTE, "ro", <<>>), V(T_LOCAL, "root", <<R1>>)>>, n |-> 2] }

InitGate == InitWith(Threads, GatePlans, MaxGateCalls)

NextGate ==
    \/ Construct
    \/ \E t \in Threads :
          \/ \E v \in VaultIds, site \in StmtSites, kid \in Kids, key \in Keys :
                StmtCall(t, v, site, kid, key)
          \/ \E v \in VaultIds : StmtCall(t, v, "commit", None, None)
          \/ MutexAcquire(t)
          \/ StmtExecute(t)
          \/ StmtFetch(t)

\* Threads t1 and t2 run statements on the connections of one registry
SpecGate == InitGate /\ [][NextGate]_vars

\* The same with two connections and one statement per call site, under the
\* scheduling of threads: a thread inside a critical section runs on, the
\* function passed in is one cursor.execute and safe_execute then returns
MaxFairCalls == 3

GateFairPlans ==
    { [vaults |-> <<V(T_REMOTE, "ro", <<>>), V(T_LOCAL, "root", <<R1>>)>>, n |-> 2] }

InitGateFair == InitWith(Threads, GateFairPlans, MaxFairCalls)

NextGateFair ==
    \/ Construct
    \/ \E t \in Threads :
          \/ \E v \in VaultIds, site \in StmtSites : StmtCall(t, v, site, "k1", "deadbeef")
          \/ \E v \in VaultIds : StmtCall(t, v, "commit", None, None)
          \/ MutexAcquire(t)
          \/ StmtExecute(t)
          \/ StmtFetch(t)

SpecGateFair ==
    /\ InitGateFair
    /\ [][NextGateFair]_vars
    /\ \A t \in Threads : WF_vars(StmtExecute(t))

-----------------------------------------------------------------------------
(* Claims *)

\* A grant permits op: its operations hold op, compared without case, or "*"
GrantPermits(g, op) ==
    \/ \E j \in 1..Len(g.ops) : upper(g.ops[j]) = upper(op)
    \/ \E j \in 1..Len(g.ops) : g.ops[j] = "*"

RefHas(perms, op, database, table) ==
    \E i \in 1..Len(perms) :
        /\ GrantPermits(perms[i], op)
        /\ database /= None => perms[i].loc[1] = database \/ perms[i].loc[1] = "*"
        /\ table /= None => perms[i].loc[2] = table \/ perms[i].loc[2] = "*"

\* C8: has_permission(op, database, table) is true exactly when some grant
\* permits op (without case, or by "*") and, for each of database and table
\* that is given, has that scope or "*"; the grant (["INSERT","SELECT"],
\* ("*","mytable")) gives true for SELECT on mytable, false on other, and true
\* on other once its table scope is "*".
C8_HasIsReference ==
    /\ (phase = "perm" /\ permq.done) =>
          permq.res = RefHas(permq.perms, permq.operation, permq.database, permq.table)
    /\ has_permission(<<Grant(<<"INSERT", "SELECT">>, "*", "mytable")>>, "SELECT", None, "mytable")
    /\ ~has_permission(<<Grant(<<"INSERT", "SELECT">>, "*", "mytable")>>, "SELECT", None, "other")
    /\ has_permission(<<Grant(<<"INSERT", "SELECT">>, "*", "*")>>, "SELECT", None, "other")

C8_Witness ==
    /\ phase = "perm"
    /\ permq.done
    /\ ~permq.res
    /\ permq.perms = <<Grant(<<"INSERT", "SELECT">>, "*", "mytable")>>
    /\ permq.operation = "select"
    /\ permq.table = "other"

\* Some grant permits SELECT
PermitsSelect(perms) == \E i \in 1..Len(perms) : GrantPermits(perms[i], "SELECT")

\* C7: a Vault.__init__ whose grants permit no SELECT raises the permission
\* error and adds no vault; every vault that exists can SELECT.
C7_NoSelectNoVault ==
    /\ [][plan'.vaults /= plan.vaults =>
            LET p == Head(plan.vaults)
            IN  IF PermitsSelect(get_permissions(p.type, p.account))
                THEN made' /= made /\ lastInit'.kind = "return"
                ELSE made' = made /\ ErrorClass(lastInit') = "PermissionError"]_vars
    /\ [](\A i \in 1..Len(made) : PermitsSelect(made[i].perms))
    /\ [](\A i \in 1..Len(registry) : PermitsSelect(made[registry[i]].perms))

C7_Witness ==
    /\ phase = "run"
    /\ lastInit = NoSelect
    /\ made = <<>>
    /\ registry = <<>>

DbVault(v) == v \in 1..Len(made) /\ IsDB(made[v].type)

NoDuplicate(rows) ==
    \A i, j \in 1..Len(rows) :
        i /= j => rows[i].kid /= rows[j].kid \/ rows[i].key /= rows[j].key

\* C6: in every reachable state each table of each DB vault holds at most one
\* row for a (kid, key) pair.
C6_UniquePerTable ==
    \A v \in 1..Len(made), table \in Tables :
        (IsDB(made[v].type) /\ store[v][table] /= NoTable) => NoDuplicate(store[v][table])

\* Two threads inserted the same pair at once: the table refused the second row
C6_Witness ==
    \E t \in Threads :
        /\ last[t].call.op = "insert_key"
        /\ last[t].res = IntegrityError
        /\ Len(store[last[t].call.v][Service]) = 1

SameInsert(a, b) ==
    /\ a.call.op = "insert_key" /\ b.call.op = "insert_key"
    /\ a.call.v = b.call.v /\ a.call.table = b.call.table
    /\ a.call.kid = b.call.kid /\ a.call.key = b.call.key

\* The vault of call c is a DB vault with a ticket, the table and INSERT on it
CanInsert(c) ==
    /\ DbVault(c.call.v)
    /\ made[c.call.v].ticket
    /\ store[c.call.v][c.call.table] /= NoTable
    /\ RefHas(made[c.call.v].perms, "INSERT", None, c.call.table)

\* C5: when two threads insert the same (kid, key) into the same table of a DB
\* vault that did not hold the pair, one is told SUCCESS and the other
\* ALREADY_EXISTS in every interleaving; none sees the constraint violation.
C5_ConcurrentDuplicateReported ==
    LET a == last["t1"]
        b == last["t2"]
    IN  (SameInsert(a, b) /\ CanInsert(a) /\ (~a.call.had \/ ~b.call.had)) =>
            /\ a.res \in {Returned(SUCCESS), Returned(ALREADY_EXISTS)}
            /\ b.res \in {Returned(SUCCESS), Returned(ALREADY_EXISTS)}
            /\ a.res /= b.res

\* C1: two insert_key calls in sequence, same (kid, key), same DB vault, into
\* the service table that exists and may be inserted into: the first returns
\* SUCCESS (ALREADY_EXISTS if the pair was there before), the second
\* ALREADY_EXISTS, neither raises.
C1_InsertTwice ==
    LET a == prev["t1"]
        b == last["t1"]
    IN  (SameInsert(a, b) /\ a.call.table = Service /\ CanInsert(a)) =>
            /\ a.res = Returned(IF a.call.had THEN ALREADY_EXISTS ELSE SUCCESS)
            /\ b.res = Returned(ALREADY_EXISTS)

C1_Witness ==
    LET a == prev["t1"]
        b == last["t1"]
    IN  /\ SameInsert(a, b) /\ a.call.table = Service /\ CanInsert(a)
        /\ a.res = Returned(SUCCESS)
        /\ b.res = Returned(ALREADY_EXISTS)

SameCreate(a, b) ==
    /\ a.call.op = "create_table" /\ b.call.op = "create_table"
    /\ a.call.v = b.call.v /\ a.call.table = b.call.table

CanCreate(c) ==
    /\ DbVault(c.call.v)
    /\ made[c.call.v].ticket
    /\ RefHas(made[c.call.v].perms, "CREATE", None, None)

\* C9: create_table calls in sequence on a DB vault with CREATE: the call that
\* finds no table runs the CREATE TABLE, every call after it runs nothing, each
\* returns without raising and the table exists after each.
C9_CreateTableIdempotent ==
    LET a == prev["t1"]
        b == last["t1"]
    IN  /\ (b.call.op = "create_table" /\ CanCreate(b)) =>
              /\ b.res = Returned(None)
              /\ b.call.wrote = ~b.call.had
              /\ store[b.call.v][b.call.table] /= NoTable
        /\ (SameCreate(a, b) /\ CanCreate(b)) =>
              /\ a.res = Returned(None)
              /\ a.call.wrote = ~a.call.had
              /\ ~b.call.wrote

C9_Witness ==
    LET a == prev["t1"]
        b == last["t1"]
    IN  /\ SameCreate(a, b) /\ CanCreate(b)
        /\ a.call.wrote /\ ~a.call.had
        /\ ~b.call.wrote
        /\ pc["t1"] = "idle"

\* The get call c hit row c.call.row of a DB vault
DbHit(c) ==
    /\ c.call.op = "get"
    /\ c.res.kind = "return"
    /\ c.res.val.pair
    /\ c.res.val.vault /= 0
    /\ IsDB(made[c.res.val.vault].type)

KidRows(v, kid) == RowIds(store[v][Service], kid)

\* C10: get(kid, "Foo") that finds the row of kid with no title in a DB vault
\* with UPDATE returns the row's key, leaves the title "Foo" and nothing
\* uncommitted; the next get(kid) with no title returns the same key and vault
\* and the title stays "Foo".
C10_TitleBackfill ==
    LET a == prev["t1"]
        b == last["t1"]
    IN  /\ (pc["t1"] = "idle" /\ DbHit(b) /\ b.call.ctitle = None
               /\ RefHas(made[b.res.val.vault].perms, "UPDATE", None, Service)) =>
              LET row == store[b.res.val.vault][Service][b.call.row]
              IN  /\ row.title = b.call.title
                  /\ row.kid = b.call.kid
                  /\ row.key = b.res.val.key
                  /\ ~dirty[b.res.val.vault]
        /\ (DbHit(a) /\ a.call.ctitle = None /\ a.call.title = "Foo"
               /\ RefHas(made[a.res.val.vault].perms, "UPDATE", None, Service)
               /\ b.call.op = "get" /\ b.call.kid = a.call.kid /\ b.call.title = None
               /\ b.call.fault = "none"
               /\ Cardinality(KidRows(a.res.val.vault, a.call.kid)) = 1) =>
              /\ b.res = a.res
              /\ store[a.res.val.vault][Service][a.call.row].title = "Foo"

C10_Witness ==
    LET a == prev["t1"]
        b == last["t1"]
    IN  /\ DbHit(a) /\ a.call.ctitle = None /\ a.call.title = "Foo"
        /\ b.call.op = "get" /\ b.call.kid = a.call.kid /\ b.call.title = None
        /\ b.res = a.res
        /\ b.call.ctitle = "Foo"
        /\ ~b.call.wrote
        /\ store[a.res.val.vault][Service][a.call.row].title = "Foo"

\* The registry indices whose vault holds a row for kid
Holders(kid) ==
    {i \in 1..Len(registry) :
        /\ store[registry[i]][Service] /= NoTable
        /\ KidRows(registry[i], kid) /= {}}

MinOf(S) == CHOOSE x \in S : \A y \in S : x <= y

ReturnsHitOf(c, i) ==
    /\ c.res.kind = "return"
    /\ c.res.val.pair
    /\ c.res.val.vault = registry[i]
    /\ \E r \in KidRows(registry[i], c.call.kid) :
          store[registry[i]][Service][r].key = c.res.val.key

\* C2: get returns the key and the identity of the first vault, in registry
\* order, that holds the kid, whatever the kinds of the vaults before it.
C2_FirstHolderWins ==
    LET b == last["t1"]
    IN  (b.call.op = "get" /\ b.call.fault = "none" /\ Holders(b.call.kid) /= {}) =>
            ReturnsHitOf(b, MinOf(Holders(b.call.kid)))

\* C3: when no vault holds the kid, get goes through every vault and returns
\* (None, None), an HTTPAPI vault among them included.
C3_AllMissReturnsNoneNone ==
    LET b == last["t1"]
    IN  (b.call.op = "get" /\ b.call.fault = "none" /\ Holders(b.call.kid) = {}) =>
            /\ b.res = Returned(GetPair(None, 0))
            /\ b.call.i = Len(registry) + 1

\* C4: a backend failure of a vault during get counts as a miss of that vault:
\* the hit of the first later vault that holds the kid is returned.
C4_FaultIsolation ==
    LET b == last["t1"]
        later == {j \in Holders(b.call.kid) : j > b.call.i}
    IN  (b.call.op = "get" /\ b.call.fault = "backend" /\ later /= {}) =>
            ReturnsHitOf(b, MinOf(later))

\* C11: for every caller of a statement on a connection, no other caller's
\* statement or fetch on that connection comes between its execute and its
\* fetch: the cursor it fetches from holds its own statement's result, and
\* what it fetches is a row its statement selected (None when it selected none).
C11_ExecuteFetchAtomic ==
    \A t \in Threads :
        last[t].call.op = "safe_execute" =>
            /\ last[t].call.cur = t
            /\ last[t].res.val \in
                   (IF last[t].call.own = {} THEN {0} ELSE last[t].call.own)

\* C12: the registry is a stable partition of the vaults passed in: it holds
\* exactly those vaults, each once, every LOCAL vault before every other
\* vault, and the LOCAL vaults among themselves and the other vaults among
\* themselves in input order.
C12_StablePartition ==
    phase = "run" =>
        LET n == Min(plan.n, Len(made))
            IsLocal(i) == made[registry[i]].type = T_LOCAL
        IN  /\ Len(registry) = n
            /\ \A v \in 1..n : Cardinality({i \in 1..n : registry[i] = v}) = 1
            /\ \A i, j \in 1..n : (i < j /\ IsLocal(j)) => IsLocal(i)
            /\ \A i, j \in 1..n :
                   (i < j /\ IsLocal(i) = IsLocal(j)) => registry[i] < registry[j]

C12_Witness ==
    /\ phase = "run"
    /\ Len(made) = 3
    /\ made[1].type = T_HTTP /\ made[2].type = T_REMOTE /\ made[3].type = T_LOCAL
    /\ registry = <<3, 1, 2>>

\* The vault of call c is a DB vault with a ticket
DbTicketVault(c) == DbVault(c.call.v) /\ made[c.call.v].ticket

\* C13: insert_key on a DB vault without INSERT on the table ends with the
\* permission error and writes no row, whether the table exists or not.
C13_NoInsertPermissionError ==
    LET b == last["t1"]
    IN  (b.call.op = "insert_key" /\ DbTicketVault(b)
            /\ ~RefHas(made[b.call.v].perms, "INSERT", None, b.call.table)) =>
            /\ ErrorClass(b.res) = "PermissionError"
            /\ ~b.call.wrote

\* C14: insert_key on a DB vault with CREATE and INSERT whose table does not
\* exist yet creates the table, writes the row and returns SUCCESS.
C14_InsertEnsuresTable ==
    LET b == last["t1"]
    IN  (b.call.op = "insert_key" /\ DbTicketVault(b) /\ CanCreate(b)
            /\ RefHas(made[b.call.v].perms, "INSERT", None, b.call.table)
            /\ ~b.call.existed) =>
            /\ b.res = Returned(SUCCESS)
            /\ HasRow(store[b.call.v], b.call.table, b.call.kid, b.call.key)

\* C15: a step of insert_key(vault, ...) or commit(vault) leaves every other
\* vault as it was: its tables and rows, its uncommitted writes, its grants
\* and its ticket; the registry is unchanged.
C15_InsertCommitFrame ==
    [][\A t \in Threads :
          (pc'[t] /= pc[t] /\ frame[t].op \in {"insert_key", "commit"}) =>
              /\ registry' = registry
              /\ Len(made') = Len(made)
              /\ \A w \in 1..Len(made) :
                    w /= frame[t].v =>
                        /\ store'[w] = store[w]
                        /\ dirty'[w] = dirty[w]
                        /\ made'[w] = made[w]]_vars

C15_Witness ==
    \E t \in Threads :
        /\ last[t].call.op = "insert_key"
        /\ last[t].call.wrote
        /\ last[t].call.v = 1
        /\ Len(made) = 2
        /\ IsDB(made[2].type)

\* C16: once insert_key returned SUCCESS for (kid, key) on the service table
\* of a DB vault, the row stays and the next get(kid) on the registry returns
\* a hit.
C16_KeysRetained ==
    LET a == prev["t1"]
        b == last["t1"]
    IN  (a.call.op = "insert_key" /\ DbVault(a.call.v) /\ a.call.table = Service
            /\ a.res = Returned(SUCCESS)
            /\ b.call.op = "get" /\ b.call.kid = a.call.kid /\ b.call.fault = "none") =>
            /\ HasRow(store[a.call.v], Service, a.call.kid, a.call.key)
            /\ b.res.kind = "return"
            /\ b.res.val.pair
            /\ b.res.val.key /= None

\* The insert_key call c went to a vault of the given type
InsertOn(c, type) ==
    /\ c.call.op = "insert_key"
    /\ made[c.call.v].type = type

\* C17: insert_key on an HTTP vault returns SUCCESS exactly when the answer has
\* status_code 200 and inserted true, ALREADY_EXISTS exactly when it has
\* status_code 200 and inserted false, FAILURE exactly for any other status_code.
C17_HttpInsertMapping ==
    LET b == last["t1"]
        r == b.call.resp
    IN  (InsertOn(b, T_HTTP) /\ b.call.fault = "none") =>
            /\ b.res.kind = "return"
            /\ (b.res.val = SUCCESS) <=> (r.status_code = 200 /\ r.inserted)
            /\ (b.res.val = ALREADY_EXISTS) <=> (r.status_code = 200 /\ ~r.inserted)
            /\ (b.res.val = FAILURE) <=> (r.status_code /= 200)

C17_Witness ==
    LET a == prev["t1"]
        b == last["t1"]
    IN  /\ InsertOn(b, T_HTTP) /\ SameInsert(a, b)
        /\ a.res = Returned(SUCCESS)
        /\ b.res = Returned(ALREADY_EXISTS)
        /\ b.call.resp = [status_code |-> 200, inserted |-> FALSE]

\* C18: insert_key on an HTTPAPI vault returns SUCCESS when the answer's
\* inserted is true and FAILURE when it is false, never ALREADY_EXISTS, also
\* for the second insert of a pair.
C18_ApiInsertMapping ==
    LET b == last["t1"]
    IN  (InsertOn(b, T_HTTPAPI) /\ b.res.kind = "return") =>
            /\ b.res.val = (IF b.call.resp.inserted THEN SUCCESS ELSE FAILURE)
            /\ b.res.val /= ALREADY_EXISTS

C18_Witness ==
    LET a == prev["t1"]
        b == last["t1"]
    IN  /\ InsertOn(b, T_HTTPAPI) /\ SameInsert(a, b)
        /\ a.res = Returned(SUCCESS)
        /\ b.res = Returned(FAILURE)
        /\ ~b.call.resp.inserted

\* C19: get on an HTTP vault takes the first key of the answer's keys as the
\* hit; an empty keys list and an answer without keys are both a miss, and
\* neither raises.
C19_HttpGetMiss ==
    LET b == last["t1"]
    IN  (b.call.op = "get" /\ b.call.fault \in {"none", "shape"}) =>
            /\ b.res.kind = "return"
            /\ (b.res.val.vault /= 0 /\ made[b.res.val.vault].type = T_HTTP) =>
                   b.res.val.key = FirstKeyOf(store[b.res.val.vault][Service], b.call.kid)

\* The get call c ended at an HTTPAPI vault whose request failed
GetApiFailed(c) ==
    /\ c.call.op = "get"
    /\ c.call.fault = "backend"
    /\ c.call.visited /= <<>>
    /\ made[c.call.visited[Len(c.call.visited)]].type = T_HTTPAPI

\* C20: a failed request to an HTTPAPI vault is never raised by get, and is
\* raised by insert_key, which then returns no InsertResult.
C20_RemoteApiErrorAsymmetry ==
    LET b == last["t1"]
    IN  /\ GetApiFailed(b) => b.res.kind = "return"
        /\ (InsertOn(b, T_HTTPAPI) /\ b.call.fault = "backend") =>
               /\ b.res.kind = "raise"
               /\ ErrorClass(b.res) = "RemoteAPIError"

C20_Witness ==
    LET a == prev["t1"]
        b == last["t1"]
    IN  /\ GetApiFailed(a) /\ a.res = Returned(GetBareNone)
        /\ InsertOn(b, T_HTTPAPI) /\ b.call.fault = "backend"
        /\ b.res = Raised("ValueError", "API error")

\* The call sent a request to an HTTPAPI vault
ApiCall(c) ==
    \/ InsertOn(c, T_HTTPAPI)
    \/ /\ c.call.op = "get"
       /\ c.call.visited /= <<>>
       /\ made[c.call.visited[Len(c.call.visited)]].type = T_HTTPAPI

\* The session id the registry holds once the answer of call c is processed
SessionAfter(c) ==
    IF c.call.fault = "none" /\ c.call.rsid /= None THEN c.call.rsid ELSE c.call.sid

\* C21: a request carries the registry's api_session_id as it is when the
\* request is sent, None before any answer supplied one; a successful answer
\* whose message has a session_id overwrites it, any other answer leaves it;
\* with one caller the next request carries the session_id of the most recent
\* successful answer that supplied one.
C21_SessionContinuity ==
    LET a == prev["t1"]
        b == last["t1"]
    IN  /\ pc["t1"] \in {"get_api", "ins_api"} => frame["t1"].sid = api_session_id
        /\ (ApiCall(b) /\ Idle("t1")) => api_session_id = SessionAfter(b)
        /\ (ApiCall(a) /\ ApiCall(b)) => b.call.sid = SessionAfter(a)
        /\ (a = NoCall /\ ApiCall(b)) => b.call.sid = None
        /\ started = 0 => api_session_id = None

C21_Witness ==
    LET a == prev["t1"]
        b == last["t1"]
    IN  /\ ApiCall(a) /\ ApiCall(b) /\ Idle("t1")
        /\ a.call.fault = "none" /\ a.call.rsid = "s1"
        /\ b.call.sid = "s1"
        /\ b.call.fault = "none" /\ b.call.rsid = None
        /\ api_session_id = "s1"

\* Thread t processes the answer to its request in this step
AnswerStep(t) == pc[t] \in {"get_api", "ins_api"} /\ pc'[t] = "idle"

\* C22: with concurrent calls to HTTPAPI vaults api_session_id is
\* last-writer-wins: each answer processed that is successful and carries a
\* session_id overwrites it, nothing else changes it, so it is always None or a
\* session_id some answer supplied and in the end the one of the last such
\* answer processed; what a call returns depends on its own answer only, not
\* on the session id it was sent with or on the order of the writes.
C22_LastWriterWins ==
    [][ /\ api_session_id' /= api_session_id =>
              \E t \in Threads :
                  /\ AnswerStep(t)
                  /\ last'[t].call.fault = "none"
                  /\ last'[t].call.rsid = api_session_id'
        /\ \A t \in Threads : AnswerStep(t) =>
              LET c == last'[t].call
                  server == store[IF c.op = "get" THEN registry[c.i] ELSE c.v]
              IN  /\ api_session_id' =
                         IF c.fault = "none" /\ c.rsid /= None THEN c.rsid
                         ELSE api_session_id
                  /\ (c.fault = "none" /\ c.op = "get") =>
                         last'[t].res =
                             Returned(GetPair(FirstKeyOf(server[Service], c.kid), registry[c.i]))
                  /\ (c.fault = "none" /\ c.op = "insert_key") =>
                         last'[t].res =
                             Returned(IF HasRow(server, Service, c.kid, c.key)
                                      THEN FAILURE ELSE SUCCESS)
      ]_vars

C22_Witness ==
    /\ \A t \in Threads : Idle(t) /\ ApiCall(last[t]) /\ last[t].call.fault = "none"
    /\ last["t1"].call.sid = None /\ last["t2"].call.sid = None
    /\ last["t1"].call.rsid = "s1" /\ last["t2"].call.rsid = "s2"
    /\ api_session_id = "s1"

\* C23: when the answer to a request has an envelope status_code other than
\* 200 or a body that is not JSON, the request fails with RemoteAPIError, no
\* message payload reaches the caller, and api_session_id stays what it was
\* when the request was sent, even if the failed envelope carries a session_id.
C23_FailedAnswerLeavesSession ==
    LET b == last["t1"]
    IN  /\ (InsertOn(b, T_HTTPAPI) /\ b.call.fault = "backend") =>
               /\ b.res.kind = "raise"
               /\ ErrorClass(b.res) = "RemoteAPIError"
               /\ b.call.resp = NoResponse
               /\ Idle("t1") => api_session_id = b.call.sid
        /\ GetApiFailed(b) =>
               /\ b.res = Returned(GetBareNone)
               /\ Idle("t1") => api_session_id = b.call.sid

C23_Witness ==
    LET a == prev["t1"]
        b == last["t1"]
    IN  /\ ApiCall(a) /\ a.call.fault = "none" /\ a.call.rsid = "s1"
        /\ InsertOn(b, T_HTTPAPI)
        /\ b.res = Raised("ValueError", "API error")
        /\ b.call.rsid = "s2"
        /\ Idle("t1") /\ api_session_id = "s1"

\* The vault at position j of the registry is a DB vault without the service table
LacksServiceTable(j) ==
    /\ IsDB(made[registry[j]].type)
    /\ store[registry[j]][Service] = NoTable

\* C24: get skips a DB vault whose service table does not exist: no lookup
\* runs against it, no error comes from it, and the scan goes on with the next
\* vault, so a get never ends at such a vault.
C24_MissingTableSkipped ==
    LET b == last["t1"]
    IN  b.call.op = "get" =>
            \A j \in 1..Len(registry) : LacksServiceTable(j) =>
                /\ \A k \in 1..Len(b.call.visited) : b.call.visited[k] /= registry[j]
                /\ b.call.i /= j

C24_Witness ==
    LET b == last["t1"]
    IN  /\ b.call.op = "get"
        /\ Len(registry) = 3
        /\ LacksServiceTable(1) /\ LacksServiceTable(2)
        /\ b.call.visited = <<registry[3]>>
        /\ b.res = Returned(GetPair("deadbeef", registry[3]))

\* The steps that run a statement or a commit on the connection of a DB vault
StatementSteps ==
    {"get_select", "get_update", "get_commit", "ins_check", "ins_insert", "ins_commit",
     "ct_create", "ct_commit"}

\* The vault the step of thread t is at
VaultAt(t) == IF frame[t].op = "get" THEN registry[frame[t].i] ELSE frame[t].v

\* A DB vault that has no ticket
NoTicketVault(v) == DbVault(v) /\ ~made[v].ticket

\* C25: no statement runs on a DB vault without a ticket: table_exists,
\* create_table and insert_key on such a vault end with the missing-ticket
\* error before any statement and leave its rows as they were, and every DB
\* vault a get scans has a ticket.
C25_NoTicketNoStatement ==
    /\ [](\A t \in Threads :
            /\ pc[t] \in StatementSteps => made[VaultAt(t)].ticket
            /\ (last[t].call.op \in {"table_exists", "create_table", "insert_key"}
                    /\ NoTicketVault(last[t].call.v)) =>
                   /\ ErrorClass(last[t].res) = "MissingTicketError"
                   /\ ~last[t].call.wrote)
    /\ [](\A i \in 1..Len(registry) :
            IsDB(made[registry[i]].type) => made[registry[i]].ticket)
    /\ [][\A v \in 1..Len(made) :
            (IsDB(made[v].type) /\ ~made'[v].ticket) =>
                store'[v] = store[v] /\ dirty'[v] = dirty[v]]_vars

C25_Witness ==
    /\ last["t1"].call.op = "insert_key"
    /\ last["t2"].call.op = "create_table"
    /\ last["t1"].call.v = last["t2"].call.v
    /\ NoTicketVault(last["t1"].call.v)
    /\ last["t1"].res = NoTicket /\ last["t2"].res = NoTicket
    /\ Idle("t1") /\ Idle("t2")

\* C26: table_exists returns True for every HTTP and every HTTPAPI vault,
\* whatever the table name, without asking for a ticket and without raising.
C26_ServerOwnsSchema ==
    \A t \in Threads :
        LET b == last[t]
        IN  (b.call.op = "table_exists"
                /\ made[b.call.v].type \in {T_HTTP, T_HTTPAPI}) =>
            b.res = Returned(TRUE)

\* create_table on a DB vault that lacks CREATE, for a table it does not have
CreateDenied(c) ==
    /\ c.call.op = "create_table"
    /\ DbTicketVault(c)
    /\ ~RefHas(made[c.call.v].perms, "CREATE", None, None)
    /\ ~c.call.had

\* C27: on a DB vault without CREATE whose table does not exist, create_table
\* returns without creating the table and without raising, and an insert_key
\* into that table afterwards returns FAILURE and writes no row.
C27_NoCreateSilent ==
    LET a == prev["t1"]
        b == last["t1"]
    IN  /\ CreateDenied(b) =>
              /\ b.res = Returned(None)
              /\ ~b.call.wrote
              /\ store[b.call.v][b.call.table] = NoTable
        /\ (CreateDenied(a) /\ b.call.op = "insert_key"
               /\ a.call.v = b.call.v /\ a.call.table = b.call.table) =>
              /\ b.res = Returned(FAILURE)
              /\ ~b.call.wrote
              /\ store[b.call.v][b.call.table] = NoTable

C27_Witness ==
    LET a == prev["t1"]
        b == last["t1"]
    IN  /\ CreateDenied(a) /\ a.res = Returned(None)
        /\ b.call.op = "insert_key" /\ b.res = Returned(FAILURE)
        /\ a.call.v = b.call.v /\ a.call.table = Service /\ b.call.table = Service
        /\ RefHas(made[b.call.v].perms, "INSERT", None, Service)
        /\ store[b.call.v][Service] = NoTable

\* C29: the duplicate check of insert_key reads the table the INSERT writes,
\* also when that table is not the service table: insert_key answers
\* ALREADY_EXISTS exactly when the table it was given holds the pair, and the
\* INSERT never meets a row the check should have seen.
C29_DuplicateCheckSameTable ==
    LET b == last["t1"]
    IN  (b.call.op = "insert_key" /\ DbTicketVault(b) /\ b.call.existed
            /\ RefHas(made[b.call.v].perms, "INSERT", None, b.call.table)
            /\ b.call.fault = "none") =>
            /\ dup_table(b.call.table) = b.call.table
            /\ (b.res = Returned(ALREADY_EXISTS)) = b.call.had
            /\ b.res /= IntegrityError

\* Thread t takes a step of a get
GetStep(t) ==
    /\ frame[t].op = "get"
    /\ pc[t] /= "idle"
    /\ pc'[t] /= pc[t] \/ frame'[t] /= frame[t]

\* From rows to after only the title of row r changed, and it was empty
OnlyTitleSet(rows, after, r) ==
    /\ r \in 1..Len(rows)
    /\ rows[r].title = None
    /\ after = [rows EXCEPT ![r].title = after[r].title]

\* C30: a step of get inserts no row and changes no kid and no key; the only
\* write it makes sets the title of the one row it hit, and only when the
\* title stored in that row is empty and the vault has UPDATE on the service
\* table; every other row and every other table is left as it was.
C30_GetFrame ==
    [][\A t \in Threads : GetStep(t) =>
          \A v \in 1..Len(made) : \A table \in Tables :
              \/ store'[v][table] = store[v][table]
              \/ /\ table = Service
                 /\ v = registry[frame[t].i]
                 /\ RefHas(made[v].perms, "UPDATE", None, Service)
                 /\ Len(store'[v][table]) = Len(store[v][table])
                 /\ OnlyTitleSet(store[v][table], store'[v][table], frame[t].row)]_vars

\* Thread t is inside the critical section of the ticket of vault v
Inside(t, v) == pc[t] = "inside" /\ frame[t].v = v

====
